---- MODULE Spec2Model ----
(***************************************************************************)
(* A model of rtreego's R-tree (src/rtree.go): the node/entry heap with    *)
(* parent back-pointers, Insert with chooseLeaf / split / adjustTree and   *)
(* root growth, the Delete stub, Size and Depth.                           *)
(*                                                                         *)
(* Pointers are node addresses: positions in the sequence `nodes`.         *)
(* Address RootAddr is &tree.root, the node embedded in the Rtree struct;  *)
(* every other node is a heap node allocated by split or by the root copy  *)
(* of Insert.  Nil is the nil pointer.  Indices into entry slices are      *)
(* 1-based here (Go's index i is i+1).                                     *)
(***************************************************************************)
EXTENDS Integers, Sequences, FiniteSets, TLC

VARIABLES
    nodes,      \* the heap: node address -> node
    size,       \* tree.size
    last,       \* the last call and what it returned
    picked,     \* the last result of pickSeeds called on its own
    inserted,   \* history: how often each object was inserted successfully
    deleted     \* history: how often each object was deleted successfully

vars == <<nodes, size, last, picked, inserted, deleted>>

----------------------------------------------------------------------------
(* Configuration and addresses *)

Dim == 1
MinChildren == 2
MaxChildren == 4

Nil == 0
RootAddr == 1

\* Cap on the number of stored objects explored.
MaxInserts == 12
\* Largest coordinate of the boxes handed to split / pickSeeds in SpecSplit.
MaxCoord == 2

----------------------------------------------------------------------------
(* Geometry: Rect, size, boundingBox, boundingBoxN (spec section 4.1) *)

Rect(p, q) == [p |-> p, q |-> q]

RectDim(r) == Len(r.p)

Min2(a, b) == IF a <= b THEN a ELSE b
Max2(a, b) == IF a >= b THEN a ELSE b

RECURSIVE sizeFrom(_, _)
sizeFrom(r, i) ==
    IF i > Len(r.p) THEN 1 ELSE (r.q[i] - r.p[i]) * sizeFrom(r, i + 1)

\* hyper-volume: product of (max[i] - min[i]) over all axes
rectSize(r) == sizeFrom(r, 1)

\* smallest rectangle containing both (operands of equal dimension)
boundingBox(r1, r2) ==
    [p |-> [i \in 1..Len(r1.p) |-> Min2(r1.p[i], r2.p[i])],
     q |-> [i \in 1..Len(r1.q) |-> Max2(r1.q[i], r2.q[i])]]

RECURSIVE boundingBoxFold(_, _, _)
boundingBoxFold(rs, i, acc) ==
    IF i > Len(rs) THEN acc ELSE boundingBoxFold(rs, i + 1, boundingBox(acc, rs[i]))

\* fold of boundingBox over a non-empty sequence
boundingBoxN(rs) == boundingBoxFold(rs, 2, rs[1])

\* geometry applied to rectangles of different dimension fails
DimsDiffer(rs) == \E i, j \in 1..Len(rs) : RectDim(rs[i]) # RectDim(rs[j])

----------------------------------------------------------------------------
(* The caller's objects: Spatial values, identified by their position.     *)
(* Objects 1..3 have Dim axes, object 4 has Dim+1 axes.                    *)

Objects ==
    << Rect(<<0>>, <<2>>),
       Rect(<<1>>, <<3>>),
       Rect(<<5>>, <<5>>),
       Rect(<<0, 0>>, <<0, 0>>) >>

ObjIds == 1..Len(Objects)

\* the point objects (0,0), (10,10), (1,1), (9,9), (5,5) of the worked
\* example, in insertion order
ScenarioPoints ==
    << Rect(<<0, 0>>, <<0, 0>>),
       Rect(<<10, 10>>, <<10, 10>>),
       Rect(<<1, 1>>, <<1, 1>>),
       Rect(<<9, 9>>, <<9, 9>>),
       Rect(<<5, 5>>, <<5, 5>>) >>

\* the k-th scenario point has the identity Len(Objects) + k
PointId(k) == Len(Objects) + k

PointIds == {PointId(k) : k \in 1..Len(ScenarioPoints)}

Bounds(o) == IF o \in ObjIds THEN Objects[o] ELSE ScenarioPoints[o - Len(Objects)]

DimOK(o) == RectDim(Bounds(o)) = Dim

----------------------------------------------------------------------------
(* Nodes and entries *)

Entry(bb, child, obj) == [bb |-> bb, child |-> child, obj |-> obj]

Node(parent, leaf, entries) == [parent |-> parent, leaf |-> leaf, entries |-> entries]

SeqMap(s, Op(_)) == [i \in 1..Len(s) |-> Op(s[i])]

EntryBB(e) == e.bb

\* computeBoundingBox: the MBR of the entries of n
computeBoundingBox(n) == boundingBoxN(SeqMap(n.entries, EntryBB))

\* getEntry: index in n's parent of the entry whose child is n; 0 when the
\* loop finds none (the returned pointer is nil)
getEntry(ns, n) ==
    LET es == ns[ns[n].parent].entries
        hits == {i \in 1..Len(es) : es[i].child = n}
    IN  IF hits = {} THEN 0 ELSE CHOOSE i \in hits : \A j \in hits : i <= j

----------------------------------------------------------------------------
(* Split engine *)

\* wasted space of a pair of entries
wasted(e1, e2) == rectSize(boundingBox(e1.bb, e2.bb)) - rectSize(e1.bb) - rectSize(e2.bb)

\* the two nested loops of pickSeeds: pairs (i, j), i < j, in loop order;
\* acc is (maxWastedSpace, left, right)
RECURSIVE pickSeedsLoop(_, _, _, _)
pickSeedsLoop(es, i, j, acc) ==
    IF i > Len(es) THEN acc
    ELSE IF j > Len(es) THEN pickSeedsLoop(es, i + 1, i + 2, acc)
    ELSE LET d == wasted(es[i], es[j])
         IN  pickSeedsLoop(es, i, j + 1,
                 IF d > acc.max THEN [max |-> d, left |-> i, right |-> j] ELSE acc)

\* pickSeeds: maxWastedSpace starts at -1.0 and the named results at their
\* zero values (Go index 0, here 1)
pickSeeds(n) ==
    LET r == pickSeedsLoop(n.entries, 1, 2, [max |-> -1, left |-> 1, right |-> 1])
    IN  <<r.left, r.right>>

AbsInt(x) == IF x < 0 THEN -x ELSE x

\* the loop of pickNext; acc is (maxDiff, next)
RECURSIVE pickNextLoop(_, _, _, _, _)
pickNextLoop(leftBB, rightBB, entries, i, acc) ==
    IF i > Len(entries) THEN acc
    ELSE LET d1 == rectSize(boundingBox(leftBB, entries[i].bb)) - rectSize(leftBB)
             d2 == rectSize(boundingBox(rightBB, entries[i].bb)) - rectSize(rightBB)
             d  == AbsInt(d1 - d2)
         IN  pickNextLoop(leftBB, rightBB, entries, i + 1,
                 IF d > acc.max THEN [max |-> d, next |-> i] ELSE acc)

pickNext(left, right, entries) ==
    pickNextLoop(computeBoundingBox(left), computeBoundingBox(right), entries, 1,
                 [max |-> -1, next |-> 1]).next

assign(e, group) == [group EXCEPT !.entries = Append(@, e)]

\* variant of assignGroup without the comparison of the groups' areas
assignGroupNoArea(e, left, right) ==
    LET leftBB == computeBoundingBox(left)
        rightBB == computeBoundingBox(right)
        leftDiff == rectSize(boundingBox(leftBB, e.bb)) - rectSize(leftBB)
        rightDiff == rectSize(boundingBox(rightBB, e.bb)) - rectSize(rightBB)
        toLeft == [left |-> assign(e, left), right |-> right]
        toRight == [left |-> left, right |-> assign(e, right)]
    IN  IF leftDiff - rightDiff < 0 THEN toLeft
        ELSE IF leftDiff - rightDiff > 0 THEN toRight
        ELSE IF Len(left.entries) - Len(right.entries) <= 0 THEN toLeft
        ELSE toRight

\* assignGroup: least enlargement, then smaller area, then fewer entries,
\* then left; the result is the pair of groups
assignGroup(e, left, right) ==
    LET leftBB == computeBoundingBox(left)
        rightBB == computeBoundingBox(right)
        leftDiff == rectSize(boundingBox(leftBB, e.bb)) - rectSize(leftBB)
        rightDiff == rectSize(boundingBox(rightBB, e.bb)) - rectSize(rightBB)
        toLeft == [left |-> assign(e, left), right |-> right]
        toRight == [left |-> left, right |-> assign(e, right)]
    IN  IF leftDiff - rightDiff < 0 THEN toLeft
        ELSE IF leftDiff - rightDiff > 0 THEN toRight
        ELSE IF rectSize(leftBB) - rectSize(rightBB) < 0 THEN toLeft
        ELSE IF rectSize(leftBB) - rectSize(rightBB) > 0 THEN toRight
        ELSE IF Len(left.entries) - Len(right.entries) <= 0 THEN toLeft
        ELSE toRight

RemoveAt(s, i) == [k \in 1..(Len(s) - 1) |-> IF k < i THEN s[k] ELSE s[k + 1]]

\* variant of place without the two forced assignments
placeNoForce(e, left, right, remaining, minGroupSize) == assignGroup(e, left, right)

\* one iteration of the distribution loop of split for the entry e
place(e, left, right, remaining, minGroupSize) ==
    IF Len(remaining) + Len(left.entries) <= minGroupSize
    THEN [left |-> assign(e, left), right |-> right]
    ELSE IF Len(remaining) + Len(right.entries) <= minGroupSize
    THEN [left |-> left, right |-> assign(e, right)]
    ELSE assignGroup(e, left, right)

\* the loop "for len(remaining) > 0" of split
RECURSIVE distribute(_, _, _, _)
distribute(left, right, remaining, minGroupSize) ==
    IF Len(remaining) = 0 THEN [left |-> left, right |-> right]
    ELSE LET next == pickNext(left, right, remaining)
             g == place(remaining[next], left, right, remaining, minGroupSize)
         IN  distribute(g.left, g.right, RemoveAt(remaining, next), minGroupSize)

\* variant of splitRemaining that starts the tail one entry late
splitRemainingShort(es, l, r) ==
    SubSeq(es, 1, l - 1) \o SubSeq(es, l + 1, r - 1) \o SubSeq(es, r + 2, Len(es))

\* the entries to be divided: n.entries without positions l and r
splitRemaining(es, l, r) ==
    SubSeq(es, 1, l - 1) \o SubSeq(es, l + 1, r - 1) \o SubSeq(es, r + 1, Len(es))

\* variant of newRight that does not copy the leaf flag of n
newRightAlwaysLeaf(n, rightSeed) == Node(n.parent, TRUE, <<rightSeed>>)

\* variant of newRight that makes every right node internal
newRightNeverLeaf(n, rightSeed) == Node(n.parent, FALSE, <<rightSeed>>)

\* the right node of a split: same parent and leaf flag as n
newRight(n, rightSeed) == Node(n.parent, n.leaf, <<rightSeed>>)

SplitPanicked(ns) == [ok |-> FALSE, nodes |-> ns, right |-> Nil]

\* the end of split: the left group reuses n, the right node is allocated
\* at the next free address
splitGroups(ns, n, g) ==
    [ok |-> TRUE,
     nodes |-> Append([ns EXCEPT ![n] = g.left], g.right),
     right |-> Len(ns) + 1]

\* split after pickSeeds returned (l, r): the slice expression
\* n.entries[l+1:r] panics when l+1 > r, before anything is written
splitSeeded(ns, n, minGroupSize, l, r) ==
    IF l + 1 > r THEN SplitPanicked(ns)
    ELSE splitGroups(ns, n,
             distribute([ns[n] EXCEPT !.entries = <<ns[n].entries[l]>>],
                        newRight(ns[n], ns[n].entries[r]),
                        splitRemaining(ns[n].entries, l, r),
                        minGroupSize))

\* split of the node at address n: (ok, heap, address of the right node).
\* pickSeeds applies boundingBox to every pair of entries, which fails on
\* boxes of different dimension, before anything is written.
split(ns, n, minGroupSize) ==
    IF Len(ns[n].entries) = 0 \/ DimsDiffer(SeqMap(ns[n].entries, EntryBB))
    THEN SplitPanicked(ns)
    ELSE splitSeeded(ns, n, minGroupSize, pickSeeds(ns[n])[1], pickSeeds(ns[n])[2])

----------------------------------------------------------------------------
(* Insertion *)

enlargement(e, o) == rectSize(boundingBox(e.bb, Bounds(o))) - rectSize(e.bb)

RECURSIVE chooseLoop(_, _, _, _)
RECURSIVE chooseLoopNoTie(_, _, _, _)
\* variant of chooseLoop that keeps the first entry of least enlargement
chooseLoopNoTie(es, o, i, chosen) ==
    IF i > Len(es) THEN chosen
    ELSE LET d == enlargement(es[i], o)
         IN  chooseLoopNoTie(es, o, i + 1,
                 IF chosen = 0 \/ d < enlargement(es[chosen], o) THEN i ELSE chosen)

\* variant of chooseLoop that always follows the first entry
chooseLoopFirst(es, o, i, chosen) == 1

\* the loop of chooseLeaf over n.entries; `chosen` is 0 while diff is still
\* math.MaxFloat64, afterwards diff is the enlargement of entry `chosen`
chooseLoop(es, o, i, chosen) ==
    IF i > Len(es) THEN chosen
    ELSE LET d == enlargement(es[i], o)
         IN  chooseLoop(es, o, i + 1,
                 IF \/ chosen = 0
                    \/ d < enlargement(es[chosen], o)
                    \/ /\ d = enlargement(es[chosen], o)
                       /\ rectSize(es[i].bb) < rectSize(es[chosen].bb)
                 THEN i ELSE chosen)

\* chooseLeaf: the address of the leaf for object o below node n, or Nil
\* when the descent panics (boundingBox on boxes of different dimension,
\* or a nil child)
RECURSIVE chooseLeaf(_, _, _)
chooseLeaf(ns, n, o) ==
    IF n = Nil THEN Nil
    ELSE IF ns[n].leaf THEN n
    ELSE IF Len(ns[n].entries) = 0 THEN Nil
    ELSE IF DimsDiffer(<<Bounds(o)>> \o SeqMap(ns[n].entries, EntryBB)) THEN Nil
    ELSE chooseLeaf(ns, ns[n].entries[chooseLoop(ns[n].entries, o, 1, 0)].child, o)

\* variant of resizeEntry that leaves the entry's bb as it was
resizeEntryKeep(ns, n) == ns

\* n.getEntry().bb = n.computeBoundingBox()
resizeEntry(ns, n) ==
    [ns EXCEPT ![ns[n].parent].entries[getEntry(ns, n)].bb = computeBoundingBox(ns[n])]

\* n.parent.entries = append(n.parent.entries, entry{nn.computeBoundingBox(), nn, nil})
addSibling(ns, n, nn) ==
    [ns EXCEPT ![ns[n].parent].entries = Append(@, Entry(computeBoundingBox(ns[nn]), nn, Nil))]

Panicked(ns) == [ok |-> FALSE, nodes |-> ns, root |-> Nil, split |-> Nil]

RECURSIVE adjustTree(_, _, _)

\* adjustTree after the parent p of n was split
adjustAfterSplit(ns, p, sp) ==
    IF sp.ok THEN adjustTree(sp.nodes, p, sp.right) ELSE Panicked(ns)

\* adjustTree after the entry for nn was added to p = n.parent
adjustAdded(ns, p) ==
    IF Len(ns[p].entries) > MaxChildren
    THEN adjustAfterSplit(ns, p, split(ns, p, MinChildren))
    ELSE adjustTree(ns, p, Nil)

\* adjustTree after n's entry was resized
adjustResized(ns, n, nn) ==
    IF nn = Nil THEN adjustTree(ns, ns[n].parent, Nil)
    ELSE adjustAdded(addSibling(ns, n, nn), ns[n].parent)

\* adjustTree(n, nn): (ok, heap, root, splitRoot).  It panics on a nil
\* parent and on the nil entry pointer getEntry returns when n's parent
\* holds no entry for n.
adjustTree(ns, n, nn) ==
    IF n = RootAddr THEN [ok |-> TRUE, nodes |-> ns, root |-> n, split |-> nn]
    ELSE IF ns[n].parent = Nil THEN Panicked(ns)
    ELSE IF getEntry(ns, n) = 0 THEN Panicked(ns)
    ELSE adjustResized(resizeEntry(ns, n), n, nn)

\* variant of growRoot whose new root lists the sibling first
growRootSwapped(ns, splitRoot) ==
    LET oldRootAddr == Len(ns) + 1
        oldRoot == ns[RootAddr]
        newRoot == Node(Nil, FALSE,
                        << Entry(computeBoundingBox(ns[splitRoot]), splitRoot, Nil),
                           Entry(computeBoundingBox(oldRoot), oldRootAddr, Nil) >>)
    IN  Append([ns EXCEPT ![RootAddr] = newRoot, ![splitRoot].parent = RootAddr],
               [oldRoot EXCEPT !.parent = RootAddr])

\* the root split of Insert: oldRoot is a copy of the root at a new
\* address, tree.root is overwritten in place by a node with two entries,
\* and the parents of oldRoot and splitRoot are set to &tree.root
growRoot(ns, splitRoot) ==
    LET oldRootAddr == Len(ns) + 1
        oldRoot == ns[RootAddr]
        newRoot == Node(Nil, FALSE,
                        << Entry(computeBoundingBox(oldRoot), oldRootAddr, Nil),
                           Entry(computeBoundingBox(ns[splitRoot]), splitRoot, Nil) >>)
    IN  Append([ns EXCEPT ![RootAddr] = newRoot, ![splitRoot].parent = RootAddr],
               [oldRoot EXCEPT !.parent = RootAddr])

InsertPanicked(ns, sz) == [nodes |-> ns, size |-> sz, err |-> "panic"]

\* the end of Insert: the new root when adjustTree returned a split root,
\* then tree.size++ and return nil
insertAdjusted(sz, adj) ==
    IF ~adj.ok THEN InsertPanicked(adj.nodes, sz)
    ELSE [nodes |-> IF adj.split # Nil THEN growRoot(adj.nodes, adj.split) ELSE adj.nodes,
          size |-> sz + 1,
          err |-> "nil"]

\* Insert after the overflowing leaf was split
insertSplit(ns, sz, leaf, sp) ==
    IF ~sp.ok THEN InsertPanicked(ns, sz)
    ELSE insertAdjusted(sz, adjustTree(sp.nodes, leaf, sp.right))

\* variant of insertAppended that splits a leaf as soon as it is full
insertAppendedEarly(ns, sz, leaf) ==
    IF Len(ns[leaf].entries) >= MaxChildren
    THEN insertSplit(ns, sz, leaf, split(ns, leaf, MinChildren))
    ELSE insertAdjusted(sz, adjustTree(ns, leaf, Nil))

\* Insert after the entry was appended to the leaf
insertAppended(ns, sz, leaf) ==
    IF Len(ns[leaf].entries) > MaxChildren
    THEN insertSplit(ns, sz, leaf, split(ns, leaf, MinChildren))
    ELSE insertAdjusted(sz, adjustTree(ns, leaf, Nil))

\* Insert after chooseLeaf returned
insertAt(ns, sz, o, leaf) ==
    IF leaf = Nil THEN InsertPanicked(ns, sz)
    ELSE insertAppended([ns EXCEPT ![leaf].entries = Append(@, Entry(Bounds(o), Nil, o))],
                        sz, leaf)

\* the body of Insert: (heap, size, err), err "panic" when the call does
\* not return
insertBody(ns, sz, o) == insertAt(ns, sz, o, chooseLeaf(ns, RootAddr, o))

----------------------------------------------------------------------------
(* Queries *)

Size == size

RECURSIVE SumSeq(_, _)
SumSeq(s, i) == IF i > Len(s) THEN 0 ELSE s[i] + SumSeq(s, i + 1)

\* nodeDepth of Depth: 1 at a leaf, else the sum over the entries
RECURSIVE nodeDepth(_, _)
nodeDepth(ns, n) ==
    IF ns[n].leaf THEN 1
    ELSE SumSeq([i \in 1..Len(ns[n].entries) |-> nodeDepth(ns, ns[n].entries[i].child)], 1)

Depth == nodeDepth(nodes, RootAddr)

----------------------------------------------------------------------------
(* The tree as a state machine *)

Crashed == last.err = "panic"

Init ==
    /\ nodes = << Node(Nil, TRUE, <<>>) >>
    /\ size = 0
    /\ last = [op |-> "NewTree", obj |-> Nil, ok |-> FALSE, err |-> "nil"]
    /\ picked = <<0, 0>>
    /\ inserted = [o \in ObjIds |-> 0]
    /\ deleted = [o \in ObjIds |-> 0]

Insert(o) ==
    /\ ~Crashed
    /\ size < MaxInserts
    /\ LET r == insertBody(nodes, size, o)
       IN  /\ nodes' = r.nodes
           /\ size' = r.size
           /\ last' = [op |-> "Insert", obj |-> o, ok |-> FALSE, err |-> r.err]
           /\ inserted' = IF r.err = "nil" THEN [inserted EXCEPT ![o] = @ + 1] ELSE inserted
    /\ UNCHANGED <<picked, deleted>>

\* variant of Delete that reports every object as found
DeleteFound(o) ==
    /\ ~Crashed
    /\ last' = [op |-> "Delete", obj |-> o, ok |-> TRUE, err |-> "nil"]
    /\ UNCHANGED <<nodes, size, picked, inserted, deleted>>

\* Delete is a stub: return false, nil
Delete(o) ==
    /\ ~Crashed
    /\ last' = [op |-> "Delete", obj |-> o, ok |-> FALSE, err |-> "nil"]
    /\ UNCHANGED <<nodes, size, picked, inserted, deleted>>

Next ==
    \/ \E o \in ObjIds : Insert(o)
    \/ \E o \in ObjIds : Delete(o)

Spec == Init /\ [][Next]_vars

----------------------------------------------------------------------------
(* split and pickSeeds on their own: a node holding 2..MaxChildren+1       *)
(* entries with arbitrary boxes, each entry referencing a distinct object  *)

Boxes == {r \in {Rect(<<a>>, <<b>>) : a, b \in 0..MaxCoord} : r.p[1] <= r.q[1]}

InitSplit ==
    /\ \E n \in 2..(MaxChildren + 1) :
         \E bs \in [1..n -> Boxes] :
           nodes = << Node(Nil, TRUE, [i \in 1..n |-> Entry(bs[i], Nil, i)]) >>
    /\ size = 0
    /\ last = [op |-> "NewTree", obj |-> Nil, ok |-> FALSE, err |-> "nil"]
    /\ picked = <<0, 0>>
    /\ inserted = [o \in ObjIds |-> 0]
    /\ deleted = [o \in ObjIds |-> 0]

PickSeedsStep ==
    /\ last.op = "NewTree"
    /\ picked' = pickSeeds(nodes[RootAddr])
    /\ last' = [op |-> "pickSeeds", obj |-> Nil, ok |-> TRUE, err |-> "nil"]
    /\ UNCHANGED <<nodes, size, inserted, deleted>>

SplitStep ==
    /\ last.op = "NewTree"
    /\ Len(nodes[RootAddr].entries) = MaxChildren + 1
    /\ LET sp == split(nodes, RootAddr, MinChildren)
       IN  /\ nodes' = sp.nodes
           /\ last' = [op |-> "split", obj |-> sp.right, ok |-> sp.ok,
                       err |-> IF sp.ok THEN "nil" ELSE "panic"]
    /\ UNCHANGED <<size, picked, inserted, deleted>>

NextSplit == PickSeedsStep \/ SplitStep

SpecSplit == InitSplit /\ [][NextSplit]_vars

----------------------------------------------------------------------------
(* The worked example: point objects in the plane inserted into a new tree.
   Insert never reads tree.Dim, so a tree made by NewTree(2, 2, 4) runs
   exactly the steps below. *)

MaxPoints == 5

InitPoints ==
    /\ nodes = << Node(Nil, TRUE, <<>>) >>
    /\ size = 0
    /\ last = [op |-> "NewTree", obj |-> Nil, ok |-> FALSE, err |-> "nil"]
    /\ picked = <<0, 0>>
    /\ inserted = [o \in ObjIds \cup PointIds |-> 0]
    /\ deleted = [o \in ObjIds \cup PointIds |-> 0]

InsertPoint(o) == size < MaxPoints /\ Insert(o)

NextPoints == \E o \in PointIds : InsertPoint(o)

SpecPoints == InitPoints /\ [][NextPoints]_vars

----------------------------------------------------------------------------
(* Observations of the tree used by the properties *)

\* the addresses reachable from n through child entries
RECURSIVE Reachable(_, _)
Reachable(ns, n) ==
    IF n = Nil THEN {}
    ELSE IF ns[n].leaf THEN {n}
    ELSE {n} \cup UNION {Reachable(ns, ns[n].entries[i].child) : i \in 1..Len(ns[n].entries)}

\* the distances from the root of the leaf nodes reachable from n, n at distance d
RECURSIVE LeafDepths(_, _, _)
LeafDepths(ns, n, d) ==
    IF n = Nil THEN {}
    ELSE IF ns[n].leaf THEN {d}
    ELSE UNION {LeafDepths(ns, ns[n].entries[i].child, d + 1) : i \in 1..Len(ns[n].entries)}

\* the number of nodes on the leftmost path from n down to a leaf
RECURSIVE Levels(_, _)
Levels(ns, n) ==
    IF ns[n].leaf \/ Len(ns[n].entries) = 0 \/ ns[n].entries[1].child = Nil THEN 1
    ELSE 1 + Levels(ns, ns[n].entries[1].child)

\* how many entries of the leaves below n reference object o
RECURSIVE CountBelow(_, _, _)
CountBelow(ns, n, o) ==
    IF n = Nil THEN 0
    ELSE IF ns[n].leaf
    THEN Cardinality({i \in 1..Len(ns[n].entries) : ns[n].entries[i].obj = o})
    ELSE SumSeq([i \in 1..Len(ns[n].entries) |-> CountBelow(ns, ns[n].entries[i].child, o)], 1)

\* how many leaf entries reachable from the root reference object o
StoredCount(ns, o) == CountBelow(ns, RootAddr, o)

StoredBag(ns) == [o \in ObjIds |-> StoredCount(ns, o)]

Total(bag) == SumSeq([o \in ObjIds |-> bag[o]], 1)

ValidConfig == 2 <= MinChildren /\ 2 * MinChildren <= MaxChildren

\* the Insert that just returned split the root (the tree grew by a level)
RootJustSplit == last.op = "Insert" /\ last.err = "nil" /\ Len(nodes) > 1 /\ nodes[Len(nodes)].parent = RootAddr /\ ~nodes[RootAddr].leaf /\ nodes[RootAddr].entries[1].child = Len(nodes)

----------------------------------------------------------------------------
(* Properties *)

\* C1: Insert of an object whose Bounds() has a number of axes different
\* from Dim returns a dimensionality error and leaves the heap and Size()
\* as they were, in every reachable tree state.
C1_DimGuard ==
    [][(last'.op = "Insert" /\ ~DimOK(last'.obj))
         => (last'.err = "DimError" /\ nodes' = nodes /\ size' = size)]_vars

\* C2: Delete(o) right after a successful Insert(o) of an object that was
\* not stored before returns (true, nil) and restores the stored objects
\* and Size() to what they were before the Insert.
C2_InsertDeleteInverse ==
    [][(/\ last.op = "Insert" /\ last.err = "nil"
        /\ StoredCount(nodes, last.obj) = 1
        /\ last'.op = "Delete" /\ last'.obj = last.obj)
         => (/\ last'.ok /\ last'.err = "nil"
             /\ StoredBag(nodes') = [StoredBag(nodes) EXCEPT ![last.obj] = 0]
             /\ size' = size - 1)]_vars

\* C3: after any sequence of calls, Size() is the number of successful
\* inserts minus the number of successful deletes, and the objects in the
\* leaves reachable from the root are, with multiplicity, the inserted
\* objects minus the deleted ones.
C3_Conservation ==
    ~Crashed =>
        /\ Size = Total(inserted) - Total(deleted)
        /\ StoredBag(nodes) = [o \in ObjIds |-> inserted[o] - deleted[o]]

\* C3 witness: an Insert whose leaf split overflowed the internal root, so
\* a leaf split, an internal-node split and a root split all happened.
C3_Witness ==
    RootJustSplit /\ Levels(nodes, RootAddr) = 3 /\ size >= 11

\* C4: every leaf reachable from the root is at the same distance from it.
C4_Balanced ==
    ~Crashed => Cardinality(LeafDepths(nodes, RootAddr, 0)) = 1

\* C4 witness: a tree of three levels with at least five leaves.
C4_Witness ==
    /\ ~Crashed /\ LeafDepths(nodes, RootAddr, 0) = {2}
    /\ Cardinality({n \in Reachable(nodes, RootAddr) : nodes[n].leaf}) >= 5

\* C5: with 2 <= MinChildren <= MaxChildren/2, after every completed call
\* every non-root node holds MinChildren..MaxChildren entries, the root at
\* most MaxChildren and, when it is not a leaf, at least 2.
C5_Branching ==
    (ValidConfig /\ ~Crashed) =>
        /\ \A n \in Reachable(nodes, RootAddr) \ {RootAddr} :
             /\ MinChildren <= Len(nodes[n].entries)
             /\ Len(nodes[n].entries) <= MaxChildren
        /\ Len(nodes[RootAddr].entries) <= MaxChildren
        /\ ~nodes[RootAddr].leaf => Len(nodes[RootAddr].entries) >= 2

\* C5 witness: a tree of three levels in which a leaf and an internal
\* non-root node hold exactly MinChildren entries and another non-root
\* node holds more.
C5_Witness ==
    /\ ValidConfig /\ ~Crashed /\ Levels(nodes, RootAddr) = 3
    /\ \E n, m, k \in Reachable(nodes, RootAddr) \ {RootAddr} :
         /\ nodes[n].leaf /\ Len(nodes[n].entries) = MinChildren
         /\ ~nodes[m].leaf /\ Len(nodes[m].entries) = MinChildren
         /\ Len(nodes[k].entries) > MinChildren

\* C6: after every completed call the bb of every leaf entry is the bounds
\* of its object and the bb of every internal entry is the MBR of the
\* entries of its child, at every level.
C6_BoundingBoxes ==
    ~Crashed =>
        \A n \in Reachable(nodes, RootAddr) :
          \A i \in 1..Len(nodes[n].entries) :
            LET e == nodes[n].entries[i]
            IN  IF nodes[n].leaf THEN e.bb = Bounds(e.obj)
                ELSE e.child # Nil /\ e.bb = computeBoundingBox(nodes[e.child])

\* C6 witness: a split that went through two levels up to the root, with
\* leaves holding different objects.
C6_Witness ==
    /\ RootJustSplit /\ Levels(nodes, RootAddr) = 3
    /\ \E n \in Reachable(nodes, RootAddr) :
         /\ ~nodes[n].leaf /\ n # RootAddr
         /\ \E i, j \in 1..Len(nodes[n].entries) : nodes[n].entries[i].bb # nodes[n].entries[j].bb

\* C7: Depth() is the number of nodes on a root-to-leaf path.
C7_DepthIsLevels ==
    ~Crashed => Depth = Levels(nodes, RootAddr)

\* C8: split of a node holding MaxChildren+1 entries with arbitrary boxes
\* returns two groups of MinChildren..MaxChildren entries each that
\* together hold exactly the original entries, each once.
C8_SplitPartition ==
    [][(last'.op = "split" /\ last.op # "split" /\ ValidConfig)
         => LET es == nodes[RootAddr].entries
                l == nodes'[RootAddr].entries
                r == nodes'[Len(nodes')].entries
            IN  /\ last'.ok
                /\ Len(nodes') = Len(nodes) + 1
                /\ MinChildren <= Len(l) /\ Len(l) <= MaxChildren
                /\ MinChildren <= Len(r) /\ Len(r) <= MaxChildren
                /\ Len(l) + Len(r) = Len(es)
                /\ {l[i] : i \in 1..Len(l)} \cup {r[i] : i \in 1..Len(r)}
                     = {es[i] : i \in 1..Len(es)}]_vars

\* C9: an Insert of a correctly dimensioned object into a tree that holds
\* only correctly dimensioned objects always returns nil: it never panics.
C9_InsertNeverPanics ==
    (/\ last.op = "Insert" /\ DimOK(last.obj)
     /\ \A o \in ObjIds : inserted[o] > 0 => DimOK(o))
        => last.err = "nil"

\* C10: on a node with at least two entries pickSeeds returns indices
\* left < right of a pair with the maximum wasted space over all pairs.
C10_PickSeedsMax ==
    last.op = "pickSeeds" =>
        LET es == nodes[RootAddr].entries
        IN  /\ picked[1] < picked[2]
            /\ \A i, j \in 1..Len(es) :
                 i < j => wasted(es[picked[1]], es[picked[2]]) >= wasted(es[i], es[j])

\* C11: Delete of an object whose Bounds() has a number of axes different
\* from Dim returns a dimensionality error and leaves the tree unchanged.
C11_DeleteDimGuard ==
    [][(last'.op = "Delete" /\ ~DimOK(last'.obj))
         => (last'.err = "DimError" /\ nodes' = nodes /\ size' = size)]_vars

\* C12: Delete of a correctly dimensioned object that is not stored returns
\* (false, nil) and leaves Size(), the root and every node's entries as
\* they were.
C12_DeleteNotFound ==
    [][(last'.op = "Delete" /\ DimOK(last'.obj) /\ StoredCount(nodes, last'.obj) = 0)
         => (/\ ~last'.ok /\ last'.err = "nil"
             /\ size' = size
             /\ nodes' = nodes)]_vars

\* C12 witness: Delete of an absent, correctly dimensioned object returned
\* on a tree of two levels that holds other objects.
C12_Witness ==
    /\ last.op = "Delete" /\ DimOK(last.obj) /\ StoredCount(nodes, last.obj) = 0
    /\ size >= MaxChildren + 1 /\ ~nodes[RootAddr].leaf

\* C13: after every completed Insert the parent of every non-root node is
\* the node that holds the entry whose child it is, and the root's parent
\* is nil.
C13_ParentPointers ==
    (last.op = "Insert" /\ last.err = "nil") =>
        /\ nodes[RootAddr].parent = Nil
        /\ \A n \in Reachable(nodes, RootAddr) :
             \A i \in 1..Len(nodes[n].entries) :
               nodes[n].entries[i].child # Nil
                   => nodes[nodes[n].entries[i].child].parent = n

----------------------------------------------------------------------------
(* The descent of Insert, stated from the least-enlargement rule *)

\* boundingBox can be applied to the bounds of o and the boxes below the root
Comparable(ns, o) ==
    ns[RootAddr].leaf \/ ~DimsDiffer(<<Bounds(o)>> \o SeqMap(ns[RootAddr].entries, EntryBB))

\* the entries of es whose box needs the least enlargement to include o
LeastEnlargement(es, o) ==
    {i \in 1..Len(es) : \A j \in 1..Len(es) : enlargement(es[i], o) <= enlargement(es[j], o)}

\* among those, the entries with the smallest box
BestEntries(es, o) ==
    {i \in LeastEnlargement(es, o) :
       \A j \in LeastEnlargement(es, o) : rectSize(es[i].bb) <= rectSize(es[j].bb)}

FirstBest(es, o) == CHOOSE i \in BestEntries(es, o) : \A j \in BestEntries(es, o) : i <= j

\* the nodes from n down to the leaf that the least-enlargement rule leads to
RECURSIVE DescentPath(_, _, _)
DescentPath(ns, n, o) ==
    IF n = Nil THEN {}
    ELSE IF ns[n].leaf \/ Len(ns[n].entries) = 0 THEN {n}
    ELSE {n} \cup DescentPath(ns, ns[n].entries[FirstBest(ns[n].entries, o)].child, o)

\* every node on the descent for o holds MaxChildren entries
PathFull(ns, o) ==
    \A n \in DescentPath(ns, RootAddr, o) : Len(ns[n].entries) = MaxChildren

\* at every internal node from n down, the entry chooseLeaf follows is one
\* of least enlargement and, among those, of smallest box
RECURSIVE ChoicesBest(_, _, _)
ChoicesBest(ns, n, o) ==
    IF ns[n].leaf THEN TRUE
    ELSE LET k == chooseLoop(ns[n].entries, o, 1, 0)
         IN  /\ k \in BestEntries(ns[n].entries, o)
             /\ ChoicesBest(ns, ns[n].entries[k].child, o)

EntryChildren(n) == {n.entries[i].child : i \in 1..Len(n.entries)}

\* C14: an Insert raises the height by exactly one if and only if the split
\* reaches the root, that is every node on the descent was full; the new
\* root is then a non-leaf node with exactly two entries, the first for a
\* node holding the old root's left group and the second for the new
\* sibling, each with the MBR of its child.  Any other Insert leaves the
\* height and the root node's identity and kind as they were.
C14_RootGrowth ==
    [][(last'.op = "Insert" /\ last'.err = "nil")
         => LET root == nodes'[RootAddr]
            IN  IF PathFull(nodes, last'.obj)
                THEN /\ Levels(nodes', RootAddr) = Levels(nodes, RootAddr) + 1
                     /\ ~root.leaf /\ root.parent = Nil
                     /\ Len(root.entries) = 2
                     /\ root.entries[1].child = Len(nodes')
                     /\ root.entries[2].child \in (Len(nodes) + 1)..(Len(nodes') - 1)
                     /\ nodes'[root.entries[1].child].leaf = nodes[RootAddr].leaf
                     /\ \A i \in 1..Len(nodes[RootAddr].entries) :
                          \/ nodes[RootAddr].entries[i].obj # Nil
                             /\ \E c \in EntryChildren(root) : \E k \in 1..Len(nodes'[c].entries) :
                                  nodes'[c].entries[k] = nodes[RootAddr].entries[i]
                          \/ nodes[RootAddr].entries[i].child # Nil
                             /\ \E c \in EntryChildren(root) :
                                  nodes[RootAddr].entries[i].child \in EntryChildren(nodes'[c])
                     /\ \A i \in 1..2 :
                          root.entries[i].bb = computeBoundingBox(nodes'[root.entries[i].child])
                ELSE /\ Levels(nodes', RootAddr) = Levels(nodes, RootAddr)
                     /\ root.leaf = nodes[RootAddr].leaf
                     /\ root.parent = Nil
                     /\ EntryChildren(nodes[RootAddr]) \subseteq EntryChildren(root)]_vars

\* C14 witness: an Insert just split a non-leaf root: the tree has three levels.
C14_Witness ==
    RootJustSplit /\ Levels(nodes, RootAddr) = 3 /\ Len(nodes[RootAddr].entries) = 2

\* C15: chooseLeaf returns a leaf, and at every internal node of its descent
\* it follows an entry of least enlargement and, among entries of equal
\* enlargement, one of smallest box area.
C15_ChooseLeaf ==
    \A o \in ObjIds :
      Comparable(nodes, o) =>
        /\ chooseLeaf(nodes, RootAddr, o) # Nil
        /\ nodes[chooseLeaf(nodes, RootAddr, o)].leaf
        /\ ChoicesBest(nodes, RootAddr, o)

\* C15 witness: after an Insert, the root is internal and for some object
\* several of its entries need the same least enlargement but differ in area.
C15_Witness ==
    /\ last.op = "Insert" /\ last.err = "nil" /\ ~nodes[RootAddr].leaf
    /\ \E o \in ObjIds :
         /\ Comparable(nodes, o)
         /\ BestEntries(nodes[RootAddr].entries, o) # LeastEnlargement(nodes[RootAddr].entries, o)

----------------------------------------------------------------------------
(* The distribution loop of split, stated from the assignment rule *)

\* enlargement of group g's box needed to include entry e
Delta(g, e) ==
    rectSize(boundingBox(computeBoundingBox(g), e.bb)) - rectSize(computeBoundingBox(g))

\* g cannot reach min entries unless it takes every remaining entry
NeedsAll(g, remaining, min) == min - Len(g.entries) >= Len(remaining)

\* the preference among two groups that are both large enough
PreferLeft(e, left, right) ==
    \/ Delta(left, e) < Delta(right, e)
    \/ /\ Delta(left, e) = Delta(right, e)
       /\ rectSize(computeBoundingBox(left)) < rectSize(computeBoundingBox(right))
    \/ /\ Delta(left, e) = Delta(right, e)
       /\ rectSize(computeBoundingBox(left)) = rectSize(computeBoundingBox(right))
       /\ Len(left.entries) <= Len(right.entries)

WentLeft(e, left, right, g) == g.left = assign(e, left) /\ g.right = right
WentRight(e, left, right, g) == g.left = left /\ g.right = assign(e, right)

\* g is what the rule makes of (left, right) for entry e
StepOK(e, left, right, remaining, min, g) ==
    /\ WentLeft(e, left, right, g) \/ WentRight(e, left, right, g)
    /\ NeedsAll(left, remaining, min) => WentLeft(e, left, right, g)
    /\ NeedsAll(right, remaining, min) => WentRight(e, left, right, g)
    /\ (~NeedsAll(left, remaining, min) /\ ~NeedsAll(right, remaining, min))
         => (WentLeft(e, left, right, g) <=> PreferLeft(e, left, right))

\* remaining[next] is an entry of greatest |delta_left - delta_right|
MaximizesDiff(next, left, right, remaining) ==
    \A i \in 1..Len(remaining) :
      AbsInt(Delta(left, remaining[next]) - Delta(right, remaining[next]))
        >= AbsInt(Delta(left, remaining[i]) - Delta(right, remaining[i]))

\* every iteration of the loop from (left, right, remaining) on picks and
\* assigns by the rule, and the loop ends with the groups (finalL, finalR)
RECURSIVE StepsOK(_, _, _, _, _, _)
StepsPlaced(left, right, remaining, min, finalL, finalR, next, g) ==
    /\ StepOK(remaining[next], left, right, remaining, min, g)
    /\ StepsOK(g.left, g.right, RemoveAt(remaining, next), min, finalL, finalR)

StepsFrom(left, right, remaining, min, finalL, finalR, next) ==
    /\ MaximizesDiff(next, left, right, remaining)
    /\ StepsPlaced(left, right, remaining, min, finalL, finalR, next,
                   place(remaining[next], left, right, remaining, min))

StepsOK(left, right, remaining, min, finalL, finalR) ==
    IF Len(remaining) = 0 THEN left = finalL /\ right = finalR
    ELSE StepsFrom(left, right, remaining, min, finalL, finalR,
                   pickNext(left, right, remaining))

SeedsOf(n) == <<n.entries[pickSeeds(n)[1]], n.entries[pickSeeds(n)[2]]>>

\* C16: in a split that returns, every iteration processes a remaining
\* entry of greatest |delta_left - delta_right|; the entry is forced into a
\* group exactly when that group needs all remaining entries to reach
\* MinChildren, and otherwise goes to the group of smaller enlargement, then
\* of smaller area, then of fewer entries, then to the left group.
C16_SplitAssignment ==
    [][(last'.op = "split" /\ last'.ok)
         => StepsOK([nodes[RootAddr] EXCEPT !.entries = <<SeedsOf(nodes[RootAddr])[1]>>],
                    newRight(nodes[RootAddr], SeedsOf(nodes[RootAddr])[2]),
                    splitRemaining(nodes[RootAddr].entries,
                                   pickSeeds(nodes[RootAddr])[1], pickSeeds(nodes[RootAddr])[2]),
                    MinChildren, nodes'[RootAddr], nodes'[Len(nodes')])]_vars

\* C16 witness: a split returned groups of different boxes, the right one
\* with exactly MinChildren entries and the left one with the rest.
C16_Witness ==
    /\ last.op = "split" /\ last.ok
    /\ Len(nodes[Len(nodes)].entries) = MinChildren
    /\ Len(nodes[RootAddr].entries) = MaxChildren + 1 - MinChildren
    /\ rectSize(computeBoundingBox(nodes[RootAddr])) > rectSize(computeBoundingBox(nodes[Len(nodes)]))

----------------------------------------------------------------------------
(* The worked example *)

\* the tree is a single leaf holding the first k scenario points in order
ScenarioPrefix(k) ==
    /\ size = k
    /\ nodes = << Node(Nil, TRUE, [i \in 1..k |-> Entry(Bounds(PointId(i)), Nil, PointId(i))]) >>

\* the tree after the fifth point: one leaf split and a new root
ScenarioSplit ==
    /\ Len(nodes) = 3
    /\ Depth = 2
    /\ Size = 5
    /\ ~nodes[RootAddr].leaf
    /\ Len(nodes[RootAddr].entries) = 2
    /\ \A i \in 1..2 :
         /\ nodes[nodes[RootAddr].entries[i].child].leaf
         /\ 2 <= Len(nodes[nodes[RootAddr].entries[i].child].entries)
         /\ Len(nodes[nodes[RootAddr].entries[i].child].entries) <= 4
    /\ \A o \in PointIds : StoredCount(nodes, o) = 1

\* C17: with MinChildren=2, MaxChildren=4, inserting the points (0,0),
\* (10,10), (1,1), (9,9), (5,5) in that order into a new tree splits nothing
\* during the first four inserts (the tree stays one leaf) and splits the
\* leaf exactly once on the fifth; then Depth() is 2, Size() is 5 and the
\* root has two leaf children of 2 to 4 entries each.
C17_WorkedExample ==
    [][\A k \in 0..(Len(ScenarioPoints) - 1) :
         (ScenarioPrefix(k) /\ last'.op = "Insert" /\ last'.obj = PointId(k + 1))
           => /\ last'.err = "nil"
              /\ IF k + 1 < Len(ScenarioPoints)
                 THEN ScenarioPrefix(k + 1)'
                 ELSE ScenarioSplit']_vars

\* C17 witness: the five points of the plane were inserted in order and the
\* fifth split the leaf into {(0,0), (1,1), (5,5)} and {(10,10), (9,9)}.
C17_Witness ==
    /\ last.op = "Insert" /\ last.obj = PointId(5) /\ last.err = "nil"
    /\ \A o \in PointIds : RectDim(Bounds(o)) = 2 /\ inserted[o] = 1
    /\ Len(nodes) = 3
    /\ SeqMap(nodes[3].entries, LAMBDA e : e.obj) = <<PointId(1), PointId(3), PointId(5)>>
    /\ SeqMap(nodes[2].entries, LAMBDA e : e.obj) = <<PointId(2), PointId(4)>>

----------------------------------------------------------------------------
(* Entry kinds *)

\* every entry of a leaf holds an object and no child, every entry of a
\* non-leaf node a child and no object
KindsOK(ns) ==
    \A n \in Reachable(ns, RootAddr) :
      \A i \in 1..Len(ns[n].entries) :
        IF ns[n].leaf
        THEN ns[n].entries[i].obj # Nil /\ ns[n].entries[i].child = Nil
        ELSE ns[n].entries[i].child # Nil /\ ns[n].entries[i].obj = Nil

\* some entry of node a was an entry of node n (same object, or same child)
SharesEntry(a, n) ==
    \E i \in 1..Len(a.entries) : \E j \in 1..Len(n.entries) :
      /\ a.entries[i].obj = n.entries[j].obj
      /\ a.entries[i].child = n.entries[j].child

\* C18: in every reachable tree every entry of a leaf references an object
\* and no child, every entry of a non-leaf node references a child and no
\* object; and when an Insert splits a node, the node keeping the left group
\* and the new right node both have the leaf flag of the node that was split.
C18_EntryKinds ==
    [][/\ KindsOK(nodes')
       /\ (last'.op = "Insert" /\ last'.err = "nil")
            => \A a \in (Len(nodes) + 1)..Len(nodes') :
                 \/ a = Len(nodes') /\ ~nodes'[RootAddr].leaf /\ nodes[RootAddr].leaf
                      /\ nodes'[a].leaf
                 \/ a = Len(nodes') /\ ~nodes[RootAddr].leaf
                      /\ nodes'[RootAddr].entries[1].child = a /\ ~nodes'[a].leaf
                 \/ \E n \in DescentPath(nodes, RootAddr, last'.obj) :
                      /\ SharesEntry(nodes'[a], nodes[n])
                      /\ nodes'[a].leaf = nodes[n].leaf
                      /\ nodes'[IF n = RootAddr THEN Len(nodes') ELSE n].leaf = nodes[n].leaf]_vars

\* C18 witness: an Insert returned after splitting a leaf and a non-leaf
\* node: the tree holds leaves, non-leaf children of the root and the root.
C18_Witness ==
    /\ last.op = "Insert" /\ last.err = "nil"
    /\ \E n \in Reachable(nodes, RootAddr) : n # RootAddr /\ ~nodes[n].leaf
    /\ \E n \in Reachable(nodes, RootAddr) : nodes[n].leaf /\ Len(nodes[n].entries) >= MinChildren

----------------------------------------------------------------------------
(* Frame of Insert *)

\* C19: an Insert changes only nodes on the path from the root to the leaf
\* chosen for the object, and the nodes it creates: every other node has
\* the same entries (children or objects, and bounding boxes) after the
\* call as before it.
C19_InsertFrame ==
    [][(last'.op = "Insert")
         => /\ Len(nodes') >= Len(nodes)
            /\ IF Comparable(nodes, last'.obj)
               THEN \A n \in (1..Len(nodes)) \ DescentPath(nodes, RootAddr, last'.obj) :
                      nodes'[n].entries = nodes[n].entries
               ELSE nodes' = nodes]_vars

\* C19 witness: an Insert returned in a tree whose root has at least three
\* children, at least two of them off the path of the insertion.
C19_Witness ==
    /\ last.op = "Insert" /\ last.err = "nil"
    /\ ~nodes[RootAddr].leaf
    /\ Len(nodes[RootAddr].entries) >= 3
    /\ StoredCount(nodes, last.obj) >= 2

====
